---- MODULE Spec2Model ----
(***************************************************************************)
(* The HTTP dispatcher of server/index.ts: request validation, provider    *)
(* and model resolution, the Gemini adapter (suggest / edit) and the       *)
(* conversion of errors into responses.                                    *)
(*                                                                         *)
(* Strings are sequences of tokens.  A token is either one whitespace      *)
(* character or a whitespace-free chunk of text ("gemini", "image/png",    *)
(* a literal piece of a message).  Concatenation is \o, trim() removes     *)
(* leading and trailing whitespace tokens, a template literal is the       *)
(* concatenation of its literal pieces and of the interpolated strings.    *)
(***************************************************************************)
EXTENDS Integers, Sequences, FiniteSets, TLC

VARIABLES pc, req, raw, call, calls, reply, caught, sent, res,
          ui, view, camera, pending, last,
          tasks

\* the request the dispatcher handles
server == <<pc, req, raw, call, calls, reply, caught, sent, res>>
\* the page in the browser
client == <<ui, view, camera, pending, last>>

vars == <<server, client, tasks>>

(***************************************************************************)
(* Bounds                                                                  *)
(***************************************************************************)
\* longest run of whitespace put around (or in place of) a string field
MaxPad == 1
\* most parts in the content of a backend candidate
MaxParts == 2

(***************************************************************************)
(* Strings                                                                 *)
(***************************************************************************)
IsWhitespace(c) == c \in {" ", "\t", "\n"}

RECURSIVE TrimStart(_)
TrimStart(s) ==
  IF s = <<>> THEN s
  ELSE IF IsWhitespace(Head(s)) THEN TrimStart(Tail(s)) ELSE s

RECURSIVE TrimEnd(_)
TrimEnd(s) ==
  IF s = <<>> THEN s
  ELSE IF IsWhitespace(s[Len(s)]) THEN TrimEnd(SubSeq(s, 1, Len(s) - 1)) ELSE s

\* String.prototype.trim
Trim(s) == TrimEnd(TrimStart(s))

\* String.prototype.includes
Includes(s, sub) ==
  \E i \in 1..(Len(s) - Len(sub) + 1) : SubSeq(s, i, i + Len(sub) - 1) = sub

Pad(n) == [i \in 1..n |-> " "]
Blanks == {Pad(n) : n \in 0..MaxPad}
Padded(core) == {Pad(n) \o core \o Pad(n) : n \in 0..MaxPad}

(***************************************************************************)
(* JavaScript values.  t is the value's kind (null and array are told      *)
(* apart from object although typeof gives "object" for the three), s the  *)
(* text of a string.                                                       *)
(***************************************************************************)
Undefined == [t |-> "undefined", s |-> <<>>]
Null == [t |-> "null", s |-> <<>>]
Num == [t |-> "number", s |-> <<>>]
JStr(s) == [t |-> "string", s |-> s]

\* typeof value
TypeOf(v) == IF v.t \in {"null", "array", "object"} THEN "object" ELSE v.t

\* the truthiness of a value: a string is truthy when it is not empty
Truthy(v) ==
  CASE v.t = "string" -> v.s # <<>>
    [] v.t \in {"undefined", "null"} -> FALSE
    [] OTHER -> TRUE

\* value.name, for a value that is neither null nor undefined
Prop(v, name) == IF v.t = "object" THEN v[name] ELSE Undefined

(***************************************************************************)
(* Errors and outcomes of a call that may throw                            *)
(***************************************************************************)
HttpError(message, statusCode) ==
  [name |-> "HttpError", message |-> message, statusCode |-> statusCode]

\* what reading a property of null throws
TypeError == [name |-> "TypeError",
              message |-> <<"Cannot read properties of null">>,
              statusCode |-> 0]

\* what the backend SDK throws: an ApiError carrying the HTTP status of the
\* backend (0 when the backend was not reached)
ApiError(status, message) ==
  [name |-> "ApiError", message |-> message, statusCode |-> status]
SdkError == ApiError(0, <<"fetch failed">>)

\* no error
NoError == [name |-> "", message |-> <<>>, statusCode |-> 0]

Ok(v) == [ok |-> TRUE, val |-> v, err |-> HttpError(<<>>, 0)]
Throw(e) == [ok |-> FALSE, val |-> Undefined, err |-> e]

(***************************************************************************)
(* Configuration (server/index.ts, module constants)                       *)
(***************************************************************************)
ALLOWED_ORIGIN == <<"*">>
DEFAULT_PROVIDER == <<"gemini">>
DEFAULT_SUGGESTION_MODEL == <<"gemini-2.5-flash">>
DEFAULT_IMAGE_MODEL == <<"gemini-2.5-flash-image-preview">>
SUGGESTIONS_PROMPT == <<"Analise os traços faciais da pessoa nesta imagem (...)">>

(***************************************************************************)
(* Validation and resolution helpers                                       *)
(***************************************************************************)
\* ensureNonEmptyString: the value itself (untrimmed) or HttpError 400
ensureNonEmptyString(value, message) ==
  IF TypeOf(value) # "string" \/ Trim(value.s) = <<>>
  THEN Throw(HttpError(message, 400))
  ELSE Ok(value.s)

\* the reference image handed to the adapter; null when none was sent
NoReference == [t |-> "null", base64Data |-> <<>>, mimeType |-> <<>>]
Reference(b, m) == [t |-> "object", base64Data |-> b, mimeType |-> m]

\* mutant: the reference image's mimeType is not checked
normalizeReferenceImage_SkipsMimeType(value) ==
  IF value.t \in {"null", "undefined"} THEN Ok(NoReference)
  ELSE IF TypeOf(value) # "object"
  THEN Throw(HttpError(
         <<"O campo \"referenceImage\" deve ser um objeto com base64Data e mimeType.">>, 400))
  ELSE LET base64Data == ensureNonEmptyString(Prop(value, "base64Data"),
                           <<"O campo \"referenceImage.base64Data\" é obrigatório.">>)
       IN IF ~base64Data.ok THEN Throw(base64Data.err)
          ELSE Ok(Reference(base64Data.val, Prop(value, "mimeType").s))

normalizeReferenceImage(value) ==
  IF value.t \in {"null", "undefined"} THEN Ok(NoReference)
  ELSE IF TypeOf(value) # "object"
  THEN Throw(HttpError(
         <<"O campo \"referenceImage\" deve ser um objeto com base64Data e mimeType.">>, 400))
  ELSE LET base64Data == ensureNonEmptyString(Prop(value, "base64Data"),
                           <<"O campo \"referenceImage.base64Data\" é obrigatório.">>)
           mimeType == ensureNonEmptyString(Prop(value, "mimeType"),
                           <<"O campo \"referenceImage.mimeType\" é obrigatório.">>)
       IN IF ~base64Data.ok THEN Throw(base64Data.err)
          ELSE IF ~mimeType.ok THEN Throw(mimeType.err)
          ELSE Ok(Reference(base64Data.val, mimeType.val))

UnsupportedProviderMessage(provider) ==
  <<"Provedor \"">> \o provider \o <<"\" não é suportado pelo servidor.">>

\* mutant: the requested provider is ignored
resolveProvider_AlwaysDefault(value) == Ok(DEFAULT_PROVIDER)

\* mutant: the requested provider is compared without trimming
resolveProvider_ExactMatch(value) ==
  LET provider == IF TypeOf(value) = "string" /\ Trim(value.s) # <<>>
                  THEN value.s ELSE DEFAULT_PROVIDER
  IN IF provider # <<"gemini">>
     THEN Throw(HttpError(UnsupportedProviderMessage(provider), 400))
     ELSE Ok(provider)

resolveProvider(value) ==
  LET provider == IF TypeOf(value) = "string" /\ Trim(value.s) # <<>>
                  THEN Trim(value.s) ELSE DEFAULT_PROVIDER
  IN IF provider # <<"gemini">>
     THEN Throw(HttpError(UnsupportedProviderMessage(provider), 400))
     ELSE Ok(provider)

\* mutant: the requested model is passed on untrimmed
resolveModel_NoTrim(value, fallback) ==
  IF TypeOf(value) = "string" /\ Trim(value.s) # <<>> THEN value.s ELSE fallback

resolveModel(value, fallback) ==
  IF TypeOf(value) = "string" /\ Trim(value.s) # <<>> THEN Trim(value.s) ELSE fallback

(***************************************************************************)
(* Request bodies.  The raw body is empty, text JSON.parse rejects, or the *)
(* text of a JSON value.                                                   *)
(***************************************************************************)
RawEmpty == [kind |-> "empty", json |-> Undefined]
RawInvalid == [kind |-> "invalid", json |-> Undefined]
RawJson(v) == [kind |-> "json", json |-> v]

\* mutant: the error of JSON.parse is rethrown as it is
parseJsonBody_RethrowsParseError(body) ==
  IF body.kind = "empty"
  THEN Throw(HttpError(<<"Corpo da requisição vazio.">>, 400))
  ELSE IF body.kind = "invalid"
  THEN Throw([name |-> "SyntaxError", message |-> <<"Unexpected token">>, statusCode |-> 0])
  ELSE Ok(body.json)

parseJsonBody(body) ==
  IF body.kind = "empty"
  THEN Throw(HttpError(<<"Corpo da requisição vazio.">>, 400))
  ELSE IF body.kind = "invalid"
  THEN Throw(HttpError(
         <<"Não foi possível interpretar o corpo da requisição como JSON.">>, 400))
  ELSE Ok(body.json)

(***************************************************************************)
(* Content parts, outbound calls and backend replies                       *)
(***************************************************************************)
NoInline == [t |-> "undefined", mimeType |-> <<>>, data |-> <<>>]
Inline(mimeType, data) == [t |-> "object", mimeType |-> mimeType, data |-> data]

UndefinedPart == [t |-> "undefined", text |-> Undefined, inlineData |-> NoInline]
TextPart(s) == [t |-> "object", text |-> JStr(s), inlineData |-> NoInline]
ImagePart(mimeType, data) ==
  [t |-> "object", text |-> Undefined, inlineData |-> Inline(mimeType, data)]

NoCall == [op |-> "none", model |-> <<>>, parts |-> <<>>, responseModalities |-> <<>>]

\* response.promptFeedback
NoFeedback == [t |-> "undefined", blockReason |-> Undefined, blockReasonMessage |-> Undefined]
Feedback(reason, message) ==
  [t |-> "object", blockReason |-> reason, blockReasonMessage |-> message]

\* candidate.content.parts, undefined or an array
NoParts == [t |-> "undefined", items |-> <<>>]
Parts(items) == [t |-> "array", items |-> items]

\* a GenerateContentResponse, or the exception the SDK call ended with
Response(text, promptFeedback, candidates) ==
  [kind |-> "response", text |-> text, promptFeedback |-> promptFeedback,
   candidates |-> candidates, error |-> NoError]
SdkThrowsWith(error) ==
  [kind |-> "throw", text |-> Undefined, promptFeedback |-> NoFeedback,
   candidates |-> <<>>, error |-> error]
SdkThrows == SdkThrowsWith(SdkError)
NoReply == [kind |-> "none", text |-> Undefined, promptFeedback |-> NoFeedback,
            candidates |-> <<>>, error |-> NoError]

(***************************************************************************)
(* The Gemini adapter                                                      *)
(***************************************************************************)
\* generateGeminiSuggestions up to its await: the call it makes
generateGeminiSuggestionsCall(base64Data, mimeType, model) ==
  [op |-> "generateContent", model |-> model,
   parts |-> <<ImagePart(mimeType, base64Data), TextPart(SUGGESTIONS_PROMPT)>>,
   responseModalities |-> <<>>]

\* generateGeminiSuggestions after its await
generateGeminiSuggestionsResult(response) ==
  LET suggestions == response.text
  IN IF ~Truthy(suggestions)
     THEN Throw(HttpError(
            <<"A IA não retornou sugestões. Tente novamente em instantes.">>, 502))
     ELSE Ok(Trim(suggestions.s))

generateSuggestions(provider, base64Data, mimeType, model) ==
  IF provider = <<"gemini">>
  THEN Ok(generateGeminiSuggestionsCall(base64Data, mimeType, model))
  ELSE Throw(HttpError(UnsupportedProviderMessage(provider), 400))

\* mutant: the prompt is substituted even when it is blank
finalPrompt_NoFallback(prompt, referenceImage) ==
  IF referenceImage.t # "null"
  THEN <<"Usando o penteado da segunda imagem como principal referência visual, aplique um estilo semelhante na pessoa da primeira imagem. Use a seguinte descrição como guia adicional: ">>
       \o Trim(prompt) \o <<".">>
  ELSE <<"Aplique este estilo de cabelo na pessoa da imagem: ">> \o prompt

\* the instruction generateGeminiHairstyle sends
finalPrompt(prompt, referenceImage) ==
  IF referenceImage.t # "null"
  THEN LET promptFallback == IF Trim(prompt) # <<>> THEN Trim(prompt)
                             ELSE <<"o estilo da imagem de referência">>
       IN <<"Usando o penteado da segunda imagem como principal referência visual, aplique um estilo semelhante na pessoa da primeira imagem. Use a seguinte descrição como guia adicional: ">>
          \o promptFallback \o <<".">>
  ELSE <<"Aplique este estilo de cabelo na pessoa da imagem: ">> \o prompt

\* generateGeminiHairstyle up to its await: the call it makes
generateGeminiHairstyleCall(base64Data, mimeType, prompt, referenceImage, model) ==
  LET userImagePart == ImagePart(mimeType, base64Data)
      referenceParts ==
        IF referenceImage.t # "null"
        THEN <<ImagePart(referenceImage.mimeType, referenceImage.base64Data)>>
        ELSE <<>>
  IN [op |-> "generateContent", model |-> model,
      parts |-> <<userImagePart>> \o referenceParts
                  \o <<TextPart(finalPrompt(prompt, referenceImage))>>,
      responseModalities |-> <<"IMAGE", "TEXT">>]

\* response.candidates?.[0]?.content?.parts
FirstCandidateParts(response) ==
  IF Len(response.candidates) = 0 THEN NoParts ELSE response.candidates[1].parts

\* Array.prototype.find over the parts whose index is in found
FirstOf(parts, found) ==
  IF parts.t = "undefined" \/ found = {} THEN UndefinedPart
  ELSE parts.items[CHOOSE i \in found : \A j \in found : i <= j]

\* mutant: the last inline part is taken instead of the first
findImagePart_Last(response) ==
  LET parts == FirstCandidateParts(response)
      found == {i \in 1..Len(parts.items) : parts.items[i].inlineData.t # "undefined"}
  IN IF parts.t = "undefined" \/ found = {} THEN UndefinedPart
     ELSE parts.items[CHOOSE i \in found : \A j \in found : i >= j]

findImagePart(response) ==
  LET parts == FirstCandidateParts(response)
  IN FirstOf(parts, {i \in 1..Len(parts.items) : parts.items[i].inlineData.t # "undefined"})

findTextPart(response) ==
  LET parts == FirstCandidateParts(response)
  IN FirstOf(parts, {i \in 1..Len(parts.items) : Truthy(parts.items[i].text)})

\* `data:${mimeType};base64,${data}`
DataUrl(inlineData) ==
  <<"data:">> \o inlineData.mimeType \o <<";base64,">> \o inlineData.data

\* mutant: the backend's reason is dropped from the message
BlockMessage_Generic(promptFeedback) == <<"Solicitação bloqueada por motivos de segurança.">>

BlockMessage(promptFeedback) ==
  IF Truthy(promptFeedback.blockReasonMessage) THEN promptFeedback.blockReasonMessage.s
  ELSE IF Truthy(promptFeedback.blockReason) THEN promptFeedback.blockReason.s
  ELSE <<"Solicitação bloqueada por motivos de segurança.">>

Generated(image, text) == [image |-> image, text |-> text]

\* mutant: a result without image and text is returned as a success
generateGeminiHairstyleResult_NoEmptyCheck(response) ==
  IF response.promptFeedback.t # "undefined" /\ Truthy(response.promptFeedback.blockReason)
  THEN Throw(HttpError(<<"Sua solicitação foi bloqueada: ">>
                         \o BlockMessage(response.promptFeedback), 400))
  ELSE LET imagePart == findImagePart(response)
           textPart == findTextPart(response)
           image == IF imagePart.t # "undefined" /\ imagePart.inlineData.t # "undefined"
                    THEN JStr(DataUrl(imagePart.inlineData)) ELSE Null
           text == IF textPart.t # "undefined" /\ Truthy(textPart.text)
                   THEN JStr(Trim(textPart.text.s)) ELSE Null
       IN Ok(Generated(image, text))

\* generateGeminiHairstyle after its await
generateGeminiHairstyleResult(response) ==
  IF response.promptFeedback.t # "undefined" /\ Truthy(response.promptFeedback.blockReason)
  THEN Throw(HttpError(<<"Sua solicitação foi bloqueada: ">>
                         \o BlockMessage(response.promptFeedback), 400))
  ELSE LET imagePart == findImagePart(response)
           textPart == findTextPart(response)
           image == IF imagePart.t # "undefined" /\ imagePart.inlineData.t # "undefined"
                    THEN JStr(DataUrl(imagePart.inlineData)) ELSE Null
           text == IF textPart.t # "undefined" /\ Truthy(textPart.text)
                   THEN JStr(Trim(textPart.text.s)) ELSE Null
       IN IF Truthy(image) \/ Truthy(text)
          THEN Ok(Generated(image, text))
          ELSE Throw(HttpError(
                 <<"A IA não conseguiu gerar uma imagem. Tente ajustar a descrição ou utilizar outra imagem de referência.">>,
                 502))

generateHairstyle(provider, base64Data, mimeType, prompt, referenceImage, model) ==
  IF provider = <<"gemini">>
  THEN Ok(generateGeminiHairstyleCall(base64Data, mimeType, prompt, referenceImage, model))
  ELSE Throw(HttpError(UnsupportedProviderMessage(provider), 400))

(***************************************************************************)
(* Responses                                                               *)
(***************************************************************************)
NoPayload == [kind |-> "none", message |-> <<>>, suggestions |-> <<>>,
              image |-> Undefined, text |-> Undefined]
MessagePayload(message) == [NoPayload EXCEPT !.kind = "message", !.message = message]
SuggestionsPayload(suggestions) ==
  [NoPayload EXCEPT !.kind = "suggestions", !.suggestions = suggestions]
ResultPayload(result) ==
  [NoPayload EXCEPT !.kind = "result", !.image = result.image, !.text = result.text]
HealthPayload == [NoPayload EXCEPT !.kind = "status"]

NoResponse == [status |-> 0, contentType |-> <<>>, allowOrigin |-> <<>>, body |-> NoPayload]

\* mutant: the preflight answer carries no cross-origin header
handleOptions_NoOrigin ==
  [status |-> 204, contentType |-> <<>>, allowOrigin |-> <<>>, body |-> NoPayload]

handleOptions ==
  [status |-> 204, contentType |-> <<>>, allowOrigin |-> ALLOWED_ORIGIN, body |-> NoPayload]

sendJSON(statusCode, payload) ==
  [status |-> statusCode, contentType |-> <<"application/json">>,
   allowOrigin |-> ALLOWED_ORIGIN, body |-> payload]

\* mutant: a typed error is answered with 500 and the generic message
handleError_IgnoresStatusCode(error) ==
  sendJSON(500, MessagePayload(
    <<"Erro interno do servidor. Consulte os logs para mais detalhes.">>))

\* mutant: an untyped error is answered with its own message
handleError_LeaksMessage(error) ==
  IF error.name = "HttpError"
  THEN sendJSON(error.statusCode, MessagePayload(error.message))
  ELSE sendJSON(500, MessagePayload(error.message))

handleError(error) ==
  IF error.name = "HttpError"
  THEN sendJSON(error.statusCode, MessagePayload(error.message))
  ELSE sendJSON(500, MessagePayload(
         <<"Erro interno do servidor. Consulte os logs para mais detalhes.">>))

(***************************************************************************)
(* The request handler between its suspension points                       *)
(***************************************************************************)
\* (req.url ?? '').split('?')[0]
RECURSIVE SplitPath(_)
SplitPath(url) ==
  IF url = <<>> \/ Head(url) = "?" THEN <<>>
  ELSE <<Head(url)>> \o SplitPath(Tail(url))

\* POST /api/llm/suggestions from the parsed body to the outbound call
suggestionsRequest(rawBody) ==
  LET parsed == parseJsonBody(rawBody)
  IN IF ~parsed.ok THEN Throw(parsed.err)
     ELSE LET body == parsed.val
          IN IF body.t \in {"null", "undefined"} THEN Throw(TypeError)
             ELSE LET base64Data == ensureNonEmptyString(Prop(body, "base64Data"),
                                      <<"O campo \"base64Data\" é obrigatório.">>)
                      mimeType == ensureNonEmptyString(Prop(body, "mimeType"),
                                      <<"O campo \"mimeType\" é obrigatório.">>)
                      provider == resolveProvider(Prop(body, "provider"))
                      model == resolveModel(Prop(body, "model"), DEFAULT_SUGGESTION_MODEL)
                  IN IF ~base64Data.ok THEN Throw(base64Data.err)
                     ELSE IF ~mimeType.ok THEN Throw(mimeType.err)
                     ELSE IF ~provider.ok THEN Throw(provider.err)
                     ELSE generateSuggestions(provider.val, base64Data.val,
                                              mimeType.val, model)

\* mutant: the provider is resolved before the fields are checked
editRequest_ProviderFirst(rawBody) ==
  LET parsed == parseJsonBody(rawBody)
  IN IF ~parsed.ok THEN Throw(parsed.err)
     ELSE LET body == parsed.val
          IN IF body.t \in {"null", "undefined"} THEN Throw(TypeError)
             ELSE LET base64Data == ensureNonEmptyString(Prop(body, "base64Data"),
                                      <<"O campo \"base64Data\" é obrigatório.">>)
                      mimeType == ensureNonEmptyString(Prop(body, "mimeType"),
                                      <<"O campo \"mimeType\" é obrigatório.">>)
                      prompt == IF TypeOf(Prop(body, "prompt")) = "string"
                                THEN Prop(body, "prompt").s ELSE <<>>
                      referenceImage == normalizeReferenceImage(Prop(body, "referenceImage"))
                      provider == resolveProvider(Prop(body, "provider"))
                      model == resolveModel(Prop(body, "model"), DEFAULT_IMAGE_MODEL)
                  IN IF ~provider.ok THEN Throw(provider.err)
                     ELSE IF ~base64Data.ok THEN Throw(base64Data.err)
                     ELSE IF ~mimeType.ok THEN Throw(mimeType.err)
                     ELSE IF ~referenceImage.ok THEN Throw(referenceImage.err)
                     ELSE generateHairstyle(provider.val, base64Data.val, mimeType.val,
                                            prompt, referenceImage.val, model)

\* POST /api/llm/edit from the parsed body to the outbound call
editRequest(rawBody) ==
  LET parsed == parseJsonBody(rawBody)
  IN IF ~parsed.ok THEN Throw(parsed.err)
     ELSE LET body == parsed.val
          IN IF body.t \in {"null", "undefined"} THEN Throw(TypeError)
             ELSE LET base64Data == ensureNonEmptyString(Prop(body, "base64Data"),
                                      <<"O campo \"base64Data\" é obrigatório.">>)
                      mimeType == ensureNonEmptyString(Prop(body, "mimeType"),
                                      <<"O campo \"mimeType\" é obrigatório.">>)
                      prompt == IF TypeOf(Prop(body, "prompt")) = "string"
                                THEN Prop(body, "prompt").s ELSE <<>>
                      referenceImage == normalizeReferenceImage(Prop(body, "referenceImage"))
                      provider == resolveProvider(Prop(body, "provider"))
                      model == resolveModel(Prop(body, "model"), DEFAULT_IMAGE_MODEL)
                  IN IF ~base64Data.ok THEN Throw(base64Data.err)
                     ELSE IF ~mimeType.ok THEN Throw(mimeType.err)
                     ELSE IF ~referenceImage.ok THEN Throw(referenceImage.err)
                     ELSE IF ~provider.ok THEN Throw(provider.err)
                     ELSE generateHairstyle(provider.val, base64Data.val, mimeType.val,
                                            prompt, referenceImage.val, model)

\* POST /api/llm/suggestions once its call has settled: the payload of the 200
\* response, or the error that reaches the catch block
suggestionsOutcome(backend) ==
  IF backend.kind = "throw" THEN Throw(backend.error)
  ELSE LET suggestions == generateGeminiSuggestionsResult(backend)
       IN IF suggestions.ok THEN Ok(SuggestionsPayload(suggestions.val))
          ELSE Throw(suggestions.err)

\* POST /api/llm/edit once its call has settled
editOutcome(backend) ==
  IF backend.kind = "throw" THEN Throw(backend.error)
  ELSE LET result == generateGeminiHairstyleResult(backend)
       IN IF result.ok THEN Ok(ResultPayload(result.val))
          ELSE Throw(result.err)

\* the response of a route that ran to its end: the 200 response, or the
\* catch block's
Conclude(outcome) ==
  IF outcome.ok THEN sendJSON(200, outcome.val) ELSE handleError(outcome.err)

(***************************************************************************)
(* State                                                                   *)
(*   pc     where the handler of the current request stands                *)
(*   req    its method and url                                             *)
(*   raw    the body read from it                                          *)
(*   call   the generateContent call made for it, calls their number       *)
(*   reply  what that call settled with                                    *)
(*   caught the error the catch block of the handler received              *)
(*   sent   the number of responses sent for the request                   *)
(*   res    the response sent                                              *)
(***************************************************************************)
\* the requests that arrive
Methods == {"GET", "POST", "OPTIONS", "PUT"}
Paths == {"/health", "/api/llm/suggestions", "/api/llm/edit",
          "/api/gemini/suggestions", "/api/gemini/edit", "/"}
Urls == {<<p>> : p \in Paths} \cup {<<p, "?", "v=1">> : p \in Paths}

NoRequest == [method |-> "", url |-> <<>>]
RawNone == [kind |-> "none", json |-> Undefined]

\* the dispatcher listens and no request is being handled
InitServer ==
  /\ pc = "idle"
  /\ req = NoRequest
  /\ raw = RawNone
  /\ call = NoCall
  /\ calls = 0
  /\ reply = NoReply
  /\ caught = NoError
  /\ sent = 0
  /\ res = NoResponse

\* res.writeHead and res.end: a response is sent
Respond(response) ==
  /\ res' = response
  /\ sent' = sent + 1
  /\ pc' = "done"

IsHealth(method, url) == method = "GET" /\ SplitPath(url) = <<"/health">>
IsSuggestions(method, url) == method = "POST" /\ SplitPath(url) = <<"/api/llm/suggestions">>
\* mutant: any method on /api/llm/edit is taken for the edit route
IsEdit_AnyMethod(method, url) == SplitPath(url) = <<"/api/llm/edit">>

IsEdit(method, url) == method = "POST" /\ SplitPath(url) = <<"/api/llm/edit">>

\* a request arrives and is answered before any suspension point
Answer(method, url, response) ==
  /\ req' = [method |-> method, url |-> url]
  /\ Respond(response)
  /\ UNCHANGED <<raw, call, calls, reply, caught>>
  /\ UNCHANGED <<client, tasks>>

\* line 70: OPTIONS on any path
Options ==
  /\ pc = "idle"
  /\ \E method \in Methods, url \in Urls :
       /\ method = "OPTIONS"
       /\ Answer(method, url, handleOptions)

\* line 76: GET /health
Health ==
  /\ pc = "idle"
  /\ \E method \in Methods, url \in Urls :
       /\ method # "OPTIONS"
       /\ IsHealth(method, url)
       /\ Answer(method, url, sendJSON(200, HealthPayload))

\* lines 81-82 and 93-94: a POST to one of the two routes starts reading the body
AwaitBody ==
  /\ pc = "idle"
  /\ \E method \in Methods, url \in Urls :
       /\ method # "OPTIONS"
       /\ ~IsHealth(method, url)
       /\ IsSuggestions(method, url) \/ IsEdit(method, url)
       /\ req' = [method |-> method, url |-> url]
       /\ pc' = "reading"
       /\ UNCHANGED <<raw, call, calls, reply, caught, sent, res>>
       /\ UNCHANGED <<client, tasks>>

\* line 108: anything else
NotFound ==
  /\ pc = "idle"
  /\ \E method \in Methods, url \in Urls :
       /\ method # "OPTIONS"
       /\ ~IsHealth(method, url)
       /\ ~IsSuggestions(method, url) /\ ~IsEdit(method, url)
       /\ Answer(method, url, sendJSON(404, MessagePayload(<<"Rota não encontrada.">>)))

\* mutant: the outbound call is made before the body is validated
Dispatch_CallsFirst(rawBody, outcome) ==
  /\ raw' = rawBody
  /\ calls' = calls + 1
  /\ IF outcome.ok
     THEN /\ call' = outcome.val
          /\ pc' = "awaiting"
          /\ UNCHANGED <<caught, sent, res>>
     ELSE /\ caught' = outcome.err
          /\ Respond(Conclude(outcome))
          /\ UNCHANGED call
  /\ UNCHANGED <<req, reply>>
  /\ UNCHANGED <<client, tasks>>

\* the body has been read: validation, resolution and the outbound call, or the error
Dispatch(rawBody, outcome) ==
  /\ raw' = rawBody
  /\ IF outcome.ok
     THEN /\ call' = outcome.val
          /\ calls' = calls + 1
          /\ pc' = "awaiting"
          /\ UNCHANGED <<caught, sent, res>>
     ELSE /\ caught' = outcome.err
          /\ Respond(Conclude(outcome))
          /\ UNCHANGED <<call, calls>>
  /\ UNCHANGED <<req, reply>>
  /\ UNCHANGED <<client, tasks>>

\* the body of a suggestions request, one of bodies, has been read
SuggestionsBody(bodies) ==
  /\ pc = "reading"
  /\ IsSuggestions(req.method, req.url)
  /\ \E rawBody \in bodies : Dispatch(rawBody, suggestionsRequest(rawBody))

\* the body of an edit request, one of bodies, has been read
EditBody(bodies) ==
  /\ pc = "reading"
  /\ IsEdit(req.method, req.url)
  /\ \E rawBody \in bodies : Dispatch(rawBody, editRequest(rawBody))

\* the outbound call settles with backend
\* mutant: a call that failed is made once more
Settle_Retries(backend, outcome) ==
  /\ reply' = backend
  /\ caught' = IF outcome.ok THEN NoError ELSE outcome.err
  /\ calls' = IF backend.kind = "throw" THEN calls + 1 ELSE calls
  /\ Respond(Conclude(outcome))
  /\ UNCHANGED <<req, raw, call>>
  /\ UNCHANGED <<client, tasks>>

Settle(backend, outcome) ==
  /\ reply' = backend
  /\ caught' = IF outcome.ok THEN NoError ELSE outcome.err
  /\ Respond(Conclude(outcome))
  /\ UNCHANGED <<req, raw, call, calls>>
  /\ UNCHANGED <<client, tasks>>

SuggestionsReply(replies) ==
  /\ pc = "awaiting"
  /\ IsSuggestions(req.method, req.url)
  /\ \E backend \in replies : Settle(backend, suggestionsOutcome(backend))

EditReply(replies) ==
  /\ pc = "awaiting"
  /\ IsEdit(req.method, req.url)
  /\ \E backend \in replies : Settle(backend, editOutcome(backend))

\* the response has been sent; the server waits for the next request
NextRequest ==
  /\ pc = "done"
  /\ pc' = "idle"
  /\ req' = NoRequest
  /\ raw' = RawNone
  /\ call' = NoCall
  /\ calls' = 0
  /\ reply' = NoReply
  /\ caught' = NoError
  /\ sent' = 0
  /\ res' = NoResponse
  /\ UNCHANGED <<client, tasks>>

(***************************************************************************)
(* Inputs: requests, bodies and backend replies                            *)
(***************************************************************************)
\* a JSON object carrying the fields the handler reads; an absent field is Undefined
Object(base64Data, mimeType, provider, model, prompt, referenceImage) ==
  [t |-> "object", base64Data |-> base64Data, mimeType |-> mimeType,
   provider |-> provider, model |-> model, prompt |-> prompt,
   referenceImage |-> referenceImage]

\* a JSON value that is no object: null, a number, a string, an array, a boolean
NonObject(t) ==
  [Object(Undefined, Undefined, Undefined, Undefined, Undefined, Undefined) EXCEPT !.t = t]

\* a value of the referenceImage field
RefValue(t, base64Data, mimeType) ==
  [t |-> t, s |-> <<>>, base64Data |-> base64Data, mimeType |-> mimeType]

Strings(S) == {JStr(s) : s \in S}

Base64Values == {Undefined, Num} \cup Strings(Blanks \cup Padded(<<"QUJD">>))
MimeValues == {Undefined, JStr(Pad(MaxPad)), JStr(<<"image/jpeg">>)}
ProviderValues ==
  {Undefined, Null, Num} \cup Strings(Blanks \cup Padded(<<"gemini">>) \cup Padded(<<"unknown-x">>))
ModelValues == {Undefined, Num} \cup Strings(Blanks \cup Padded(<<"custom-model">>))
PromptValues == {Undefined, Num, JStr(<<"franja">>)}
ReferenceValues ==
  {RefValue(t, Undefined, Undefined) : t \in {"undefined", "null", "number", "string", "array"}}
  \cup {RefValue("object", b, m) :
          b \in {Undefined, JStr(Pad(MaxPad)), JStr(<<"UkVG">>)},
          m \in {Undefined, JStr(<<"image/png">>)}}

NonObjects == {NonObject(t) : t \in {"null", "number", "string", "array", "boolean"}}

\* bodies sent to /api/llm/suggestions, which reads neither prompt nor referenceImage
SuggestionsBodies ==
  {RawEmpty, RawInvalid} \cup {RawJson(v) : v \in NonObjects}
  \cup {RawJson(Object(b, m, p, mo, Undefined, RefValue("undefined", Undefined, Undefined))) :
          b \in Base64Values, m \in MimeValues, p \in ProviderValues, mo \in ModelValues}

\* bodies sent to /api/llm/edit
EditBodies ==
  {RawEmpty, RawInvalid} \cup {RawJson(v) : v \in NonObjects}
  \cup {RawJson(Object(b, m, p, mo, pr, r)) :
          b \in Base64Values, m \in MimeValues, p \in ProviderValues, mo \in ModelValues,
          pr \in PromptValues, r \in ReferenceValues}

\* the parts a backend candidate is made of
ReplyParts ==
  {TextPart(s) : s \in Blanks \cup Padded(<<"Ficou", " ", "bom">>)}
  \cup {ImagePart(<<"image/png">>, <<"QUJD">>), ImagePart(<<"image/webp">>, <<"UklG">>)}

RECURSIVE SeqsUpTo(_, _)
SeqsUpTo(S, n) ==
  IF n = 0 THEN {<<>>}
  ELSE LET shorter == SeqsUpTo(S, n - 1)
       IN shorter \cup {Append(q, x) : q \in {r \in shorter : Len(r) = n - 1}, x \in S}

Candidate(parts) == [parts |-> parts]
Candidates == {Candidate(NoParts)} \cup {Candidate(Parts(q)) : q \in SeqsUpTo(ReplyParts, MaxParts)}
\* a second candidate, which the adapter never reads
OtherCandidate == Candidate(Parts(<<ImagePart(<<"image/gif">>, <<"R0lG">>), TextPart(<<"outro">>)>>))
CandidateLists == {<<>>} \cup {<<c>> : c \in Candidates} \cup {<<c, OtherCandidate>> : c \in Candidates}

Feedbacks ==
  {NoFeedback,
   Feedback(Undefined, JStr(<<"nada">>)),
   Feedback(JStr(<<"SAFETY">>), Undefined),
   Feedback(JStr(<<"SAFETY">>), JStr(<<>>)),
   Feedback(JStr(<<"SAFETY">>), JStr(<<"Conteúdo", " ", "bloqueado">>))}

SuggestionTexts == {Undefined} \cup Strings(Blanks \cup Padded(<<"Bob", "\n", "curto">>))

\* the HTTP statuses a backend failure comes with
BackendStatuses == {400, 401, 403, 404, 429, 500, 503}

\* the exceptions the SDK call ends with: the backend was not reached, or it
\* answered with a failure status
SdkErrors ==
  {SdkError} \cup {ApiError(status, <<"got", " ", "status">>) : status \in BackendStatuses}
SdkFailures == {SdkThrowsWith(error) : error \in SdkErrors}

\* every reply to a suggestions call: the adapter reads response.text, the
\* backend may add its promptFeedback
SuggestionsReplies ==
  SdkFailures \cup {Response(t, f, <<>>) : t \in SuggestionTexts, f \in Feedbacks}

\* every reply to an edit call
EditReplies == SdkFailures \cup {Response(Undefined, f, c) : f \in Feedbacks, c \in CandidateLists}

\* a few replies of each kind
SomeEditReplies ==
  {SdkThrows,
   SdkThrowsWith(ApiError(429, <<"got", " ", "status">>)),
   Response(Undefined, NoFeedback, <<>>),
   Response(Undefined, NoFeedback, <<Candidate(Parts(<<ImagePart(<<"image/png">>, <<"QUJD">>)>>))>>),
   Response(Undefined, NoFeedback, <<Candidate(Parts(<<TextPart(<<"Ficou", " ", "bom">>)>>))>>),
   Response(Undefined, Feedback(JStr(<<"SAFETY">>), Undefined), <<>>)}

\* a few well-formed bodies, with and without prompt, reference image and model
AdapterPrompts == {Undefined} \cup Strings(Blanks \cup Padded(<<"franja">>))
AdapterBodies ==
  {RawInvalid}
  \cup {RawJson(Object(JStr(<<"QUJD">>), JStr(<<"image/jpeg">>), Undefined, mo, pr, r)) :
          mo \in {Undefined, JStr(<<"custom-model">>)},
          pr \in AdapterPrompts,
          r \in {RefValue("undefined", Undefined, Undefined),
                 RefValue("object", JStr(<<"UkVG">>), JStr(<<"image/png">>))}}

(***************************************************************************)
(* The client gateway (services/llmService.ts)                             *)
(*                                                                         *)
(* A value of a response body is a record with the kind t of the value,    *)
(* the text s of a string and the fields the gateway reads of an object;   *)
(* a field that is absent is Undefined.                                    *)
(***************************************************************************)
JsonValue(t, s) ==
  [t |-> t, s |-> s, message |-> Undefined, suggestions |-> Undefined,
   image |-> Undefined, text |-> Undefined]
JsonNull == JsonValue("null", <<>>)
JsonObject(message, suggestions, image, text) ==
  [t |-> "object", s |-> <<>>, message |-> message, suggestions |-> suggestions,
   image |-> image, text |-> text]

\* new Error(message)
JsError(message) == [name |-> "Error", message |-> message, statusCode |-> 0]
\* what fetch and the reading of a body reject with when the transport fails
FetchTypeError == [name |-> "TypeError", message |-> <<"Failed to fetch">>, statusCode |-> 0]

\* the body of a response as it arrives: JSON text of a value, text that is
\* no JSON (possibly empty), or a stream that breaks while it is read
JsonBody(value) == [kind |-> "json", json |-> value, text |-> <<"(json text)">>]
TextBody(text) == [kind |-> "text", json |-> Undefined, text |-> text]
BrokenBody == [kind |-> "broken", json |-> Undefined, text |-> <<>>]

\* what fetch settles with: a rejection, or a Response
FetchRejects(error) ==
  [kind |-> "reject", error |-> error, status |-> 0, contentType |-> <<>>,
   body |-> TextBody(<<>>)]
FetchResponse(status, contentType, body) ==
  [kind |-> "response", error |-> NoError, status |-> status,
   contentType |-> contentType, body |-> body]

\* response.ok
IsOk(response) == response.status \in 200..299

\* mutant: the body is parsed as JSON whatever its content type
parseResponseBody_AlwaysJson(response) ==
  Ok(IF response.body.kind = "json" THEN response.body.json ELSE JsonNull)

parseResponseBody(response) ==
  IF Includes(response.contentType, <<"application/json">>)
  THEN Ok(IF response.body.kind = "json" THEN response.body.json ELSE JsonNull)
  ELSE IF response.body.kind = "broken" THEN Throw(FetchTypeError)
  ELSE IF response.body.text # <<>> THEN Ok(JsonValue("string", response.body.text))
  ELSE Ok(JsonNull)

extractErrorMessage(body) ==
  IF body.t = "object" /\ body.message.t = "string" /\ Trim(body.message.s) # <<>>
  THEN Trim(body.message.s)
  ELSE IF body.t = "string" /\ Trim(body.s) # <<>>
  THEN body.s
  ELSE <<"Falha ao comunicar com o servidor. Tente novamente mais tarde.">>

NETWORK_ERROR_MESSAGE ==
  <<"Não foi possível conectar ao servidor. Verifique sua conexão com a internet e se o backend está em execução.">>

\* postJSON from the settling of fetch on
postJSON(fetched) ==
  IF fetched.kind = "reject"
  THEN IF fetched.error.name = "TypeError" THEN Throw(JsError(NETWORK_ERROR_MESSAGE))
       ELSE IF fetched.error.name # "" THEN Throw(fetched.error)
       ELSE Throw(JsError(<<"Falha desconhecida ao comunicar com o servidor.">>))
  ELSE LET parsedBody == parseResponseBody(fetched)
       IN IF ~parsedBody.ok THEN Throw(parsedBody.err)
          ELSE IF ~IsOk(fetched)
          THEN Throw(JsError(extractErrorMessage(parsedBody.val)))
          ELSE IF parsedBody.val.t = "null" \/ TypeOf(parsedBody.val) # "object"
          THEN Throw(JsError(<<"Resposta inválida do servidor.">>))
          ELSE Ok(parsedBody.val)

\* mutant: any string is accepted as suggestions
getHairstyleSuggestions_AcceptsBlank(fetched) ==
  LET response == postJSON(fetched)
  IN IF ~response.ok THEN response
     ELSE IF response.val.suggestions.t # "string"
     THEN Throw(JsError(<<"O servidor não retornou sugestões válidas.">>))
     ELSE Ok(JStr(response.val.suggestions.s))

\* getHairstyleSuggestions from the settling of fetch on
getHairstyleSuggestions(fetched) ==
  LET response == postJSON(fetched)
  IN IF ~response.ok THEN response
     ELSE IF response.val.suggestions.t # "string" \/ Trim(response.val.suggestions.s) = <<>>
     THEN Throw(JsError(<<"O servidor não retornou sugestões válidas.">>))
     ELSE Ok(JStr(response.val.suggestions.s))

\* editImageWithHairstyle from the settling of fetch on
editImageWithHairstyle(fetched) ==
  LET response == postJSON(fetched)
  IN IF ~response.ok THEN response
     ELSE LET image == IF response.val.image.t = "string" /\ Trim(response.val.image.s) # <<>>
                       THEN response.val.image ELSE Null
              text == IF response.val.text.t = "string" /\ Trim(response.val.text.s) # <<>>
                      THEN response.val.text ELSE Null
          IN IF ~Truthy(image) /\ ~Truthy(text)
             THEN Throw(JsError(<<"O servidor não retornou conteúdo gerado.">>))
             ELSE Ok(Generated(image, text))

(***************************************************************************)
(* The UI (App.tsx)                                                        *)
(***************************************************************************)
UNKNOWN_ERROR_MESSAGE == <<"Ocorreu um erro desconhecido.">>

\* mutant: the message of the error is shown even when the error is a TypeError
getFriendlyErrorMessage_NoNetworkCase(error) ==
  IF error.name # "" /\ Trim(error.message) # <<>> THEN Trim(error.message)
  ELSE UNKNOWN_ERROR_MESSAGE

getFriendlyErrorMessage(error) ==
  IF error.name = "TypeError" THEN NETWORK_ERROR_MESSAGE
  ELSE IF error.name # "" /\ Trim(error.message) # <<>> THEN Trim(error.message)
  ELSE UNKNOWN_ERROR_MESSAGE

(***************************************************************************)
(* From the dispatcher to the gateway: JSON.stringify(payload) in sendJSON *)
(* and response.json() in parseResponseBody                                *)
(***************************************************************************)
\* a string property of the payload as the gateway parses it
WireString(present, s) == IF present THEN JStr(s) ELSE Undefined

\* the value the gateway parses from the body sendJSON wrote: undefined
\* properties are dropped by JSON.stringify, null and strings are kept
WireValue(payload) ==
  JsonObject(WireString(payload.kind = "message", payload.message),
             WireString(payload.kind = "suggestions", payload.suggestions),
             payload.image, payload.text)

\* the Response fetch resolves with for a response of the dispatcher
Received(response) ==
  FetchResponse(response.status, response.contentType,
                IF response.body.kind = "none" THEN TextBody(<<>>)
                ELSE JsonBody(WireValue(response.body)))

(***************************************************************************)
(* The page: the state of App, what the last render shows of it, and the   *)
(* gateway calls it has in flight                                          *)
(*   ui      the state of the component (useState)                         *)
(*   view    the state as of the last render: what the controls show and   *)
(*           what the handlers' closures hold                              *)
(*   camera  the progress of CameraFeed.startStream                        *)
(*   pending the number of gateway calls in flight, per operation          *)
(*   last    the last run of a handler that ended: its operation, what     *)
(*           fetch settled with and what the gateway made of it            *)
(***************************************************************************)
\* most gateway calls the page is let to have in flight
MaxPending == 2

InitUi ==
  [prompt |-> <<>>, isLoading |-> FALSE, isSuggesting |-> FALSE, suggestions |-> Null,
   error |-> Null, resultImage |-> Null, resultText |-> Null, isCameraReady |-> FALSE,
   referenceImage |-> NoReference]

NoFetch ==
  [kind |-> "none", error |-> NoError, status |-> 0, contentType |-> <<>>,
   body |-> TextBody(<<>>)]
NoLast == [op |-> "none", fetched |-> NoFetch, outcome |-> Ok(Undefined)]
Ended(op, fetched, outcome) == [op |-> op, fetched |-> fetched, outcome |-> outcome]

InitClient ==
  /\ ui = InitUi
  /\ view = InitUi
  /\ camera = "starting"
  /\ pending = [suggest |-> 0, edit |-> 0]
  /\ last = NoLast

\* the Controls are rendered unless a result image is shown without error
ControlsShown(v) == ~(Truthy(v.resultImage) /\ ~v.isLoading /\ ~Truthy(v.error))
\* the isLoading prop of Controls, which disables its buttons and inputs
ControlsDisabled(v) == v.isLoading \/ v.isSuggesting \/ ~v.isCameraReady
\* the guard at the head of both handlers, on the values of their closure
HandlerIdle(v) == ~(v.isLoading \/ v.isSuggesting)

CaptureError == JsError(<<"Não foi possível capturar a imagem da câmera.">>)

\* mutant: handleSuggestHairstyles does not raise its busy flag
StartSuggest_NoBusyFlag(u) == [u EXCEPT !.error = Null, !.suggestions = Null]

\* handleSuggestHairstyles up to its try block
StartSuggest(u) ==
  [u EXCEPT !.isSuggesting = TRUE, !.error = Null, !.suggestions = Null]

\* handleGenerateHairstyle up to its try block
StartGenerate(u) ==
  [u EXCEPT !.isLoading = TRUE, !.error = Null, !.resultText = Null]

\* mutant: handleSuggestHairstyles without its finally block
SuggestSettled_NoFinally(u, outcome) ==
  IF outcome.ok THEN [u EXCEPT !.suggestions = outcome.val, !.isSuggesting = FALSE]
  ELSE [u EXCEPT !.error = JStr(getFriendlyErrorMessage(outcome.err))]

\* handleSuggestHairstyles from the end of its await on: try, catch, finally
SuggestSettled(u, outcome) ==
  IF outcome.ok THEN [u EXCEPT !.suggestions = outcome.val, !.isSuggesting = FALSE]
  ELSE [u EXCEPT !.error = JStr(getFriendlyErrorMessage(outcome.err)),
                 !.isSuggesting = FALSE]

\* mutant: the catch block of handleGenerateHairstyle does not set the error
GenerateSettled_NoError(u, outcome) ==
  IF outcome.ok
  THEN [u EXCEPT !.resultImage = outcome.val.image, !.resultText = outcome.val.text,
                 !.isLoading = FALSE]
  ELSE [u EXCEPT !.resultImage = Null, !.resultText = Null, !.isLoading = FALSE]

\* handleGenerateHairstyle from the end of its await on: try, catch, finally
GenerateSettled(u, outcome) ==
  IF outcome.ok
  THEN [u EXCEPT !.resultImage = outcome.val.image, !.resultText = outcome.val.text,
                 !.isLoading = FALSE]
  ELSE [u EXCEPT !.error = JStr(getFriendlyErrorMessage(outcome.err)),
                 !.resultImage = Null, !.resultText = Null, !.isLoading = FALSE]

\* a handler of a user event ran: React renders before the next event
Event(next) ==
  /\ ui' = next
  /\ view' = next
  /\ UNCHANGED <<server, tasks>>

\* state was set outside a user event: the render follows later
Update(next) ==
  /\ ui' = next
  /\ UNCHANGED view
  /\ UNCHANGED <<server, tasks>>

\* startStream got the camera: onReady
CameraReady ==
  /\ camera = "starting"
  /\ camera' = "ready"
  /\ Update([ui EXCEPT !.isCameraReady = TRUE])
  /\ UNCHANGED <<pending, last>>

\* startStream failed: onError
CameraFails ==
  /\ camera = "starting"
  /\ camera' = "failed"
  /\ Update([ui EXCEPT !.error = JStr(<<"Não foi possível acessar a câmera. Por favor, verifique as permissões no seu navegador.">>)])
  /\ UNCHANGED <<pending, last>>

\* React renders the state set outside a user event
Render ==
  /\ view # ui
  /\ view' = ui
  /\ UNCHANGED <<ui, camera, pending, last>>
  /\ UNCHANGED <<server, tasks>>

\* the prompts the user types
Prompts == {<<>>, <<"franja">>}

\* the text input of Controls
TypePrompt ==
  /\ ControlsShown(view) /\ ~ControlsDisabled(view)
  /\ \E p \in Prompts \ {ui.prompt} : Event([ui EXCEPT !.prompt = p])
  /\ UNCHANGED <<camera, pending, last>>

\* handleImageUpload, from the choice of a file to the end of its reading
ChooseReference ==
  /\ ControlsShown(view) /\ ~ControlsDisabled(view)
  /\ view.referenceImage.t = "null"
  /\ Event([ui EXCEPT !.referenceImage = Reference(<<"UkVG">>, <<"image/png">>)])
  /\ UNCHANGED <<camera, pending, last>>

\* handleRemoveReferenceImage
RemoveReference ==
  /\ ControlsShown(view)
  /\ view.referenceImage.t # "null"
  /\ Event([ui EXCEPT !.referenceImage = NoReference])
  /\ UNCHANGED <<camera, pending, last>>

\* the button that closes the suggestions
CloseSuggestions ==
  /\ Truthy(view.suggestions) /\ ~view.isSuggesting /\ ~view.isLoading
  /\ ~Truthy(view.resultImage)
  /\ Event([ui EXCEPT !.suggestions = Null])
  /\ UNCHANGED <<camera, pending, last>>

\* handleTryAgain, from either of its two buttons
TryAgain ==
  /\ \/ Truthy(view.resultImage) /\ ~view.isLoading /\ ~Truthy(view.error)
     \/ Truthy(view.resultText) /\ ~view.isLoading /\ ~Truthy(view.resultImage)
  /\ Event([ui EXCEPT !.resultImage = Null, !.resultText = Null, !.error = Null,
                      !.prompt = <<>>, !.referenceImage = NoReference])
  /\ UNCHANGED <<camera, pending, last>>

\* handleSuggestHairstyles is run by its button: up to the gateway call, or to
\* its end when no frame could be captured
ClickSuggest ==
  /\ ControlsShown(view) /\ ~ControlsDisabled(view)
  /\ HandlerIdle(view)
  /\ pending.suggest + pending.edit < MaxPending
  /\ \E frame \in BOOLEAN :
       IF frame
       THEN /\ Event(StartSuggest(ui))
            /\ pending' = [pending EXCEPT !.suggest = @ + 1]
            /\ last' = NoLast
       ELSE /\ Event(SuggestSettled(StartSuggest(ui), Throw(CaptureError)))
            /\ last' = Ended("suggest", NoFetch, Throw(CaptureError))
            /\ UNCHANGED pending
  /\ UNCHANGED camera

\* handleGenerateHairstyle is run by its button or by the Enter key
ClickSubmit ==
  /\ ControlsShown(view) /\ ~ControlsDisabled(view)
  /\ Trim(view.prompt) # <<>> \/ view.referenceImage.t # "null"
  /\ HandlerIdle(view)
  /\ pending.suggest + pending.edit < MaxPending
  /\ \E frame \in BOOLEAN :
       IF frame
       THEN /\ Event(StartGenerate(ui))
            /\ pending' = [pending EXCEPT !.edit = @ + 1]
            /\ last' = NoLast
       ELSE /\ Event(GenerateSettled(StartGenerate(ui), Throw(CaptureError)))
            /\ last' = Ended("edit", NoFetch, Throw(CaptureError))
            /\ UNCHANGED pending
  /\ UNCHANGED camera

\* the gateway call of handleSuggestHairstyles settles
SuggestSettles(outcomes) ==
  /\ pending.suggest > 0
  /\ \E fetched \in outcomes :
       LET outcome == getHairstyleSuggestions(fetched)
       IN /\ Update(SuggestSettled(ui, outcome))
          /\ last' = Ended("suggest", fetched, outcome)
  /\ pending' = [pending EXCEPT !.suggest = @ - 1]
  /\ UNCHANGED camera

\* the gateway call of handleGenerateHairstyle settles
GenerateSettles(outcomes) ==
  /\ pending.edit > 0
  /\ \E fetched \in outcomes :
       LET outcome == editImageWithHairstyle(fetched)
       IN /\ Update(GenerateSettled(ui, outcome))
          /\ last' = Ended("edit", fetched, outcome)
  /\ pending' = [pending EXCEPT !.edit = @ - 1]
  /\ UNCHANGED camera

\* what fetch settles with: the transport fails, or a response arrives from
\* the dispatcher or from whatever stands in front of it
MessageValues ==
  {Undefined, Num, JStr(NETWORK_ERROR_MESSAGE)}
  \cup Strings(Blanks \cup Padded(<<"Provedor", " ", "inválido.">>))
ResultValues == {Undefined, Null} \cup Strings(Blanks \cup Padded(<<"data:image/png;base64,QUJD">>))
JsonValues ==
  {JsonNull, JsonValue("array", <<>>), JsonValue("number", <<>>),
   JsonValue("string", <<"oops">>)}
  \cup {JsonObject(m, Undefined, Undefined, Undefined) : m \in MessageValues}
  \cup {JsonObject(Undefined, x, Undefined, Undefined) : x \in MessageValues}
  \cup {JsonObject(Undefined, Undefined, i, t) : i \in ResultValues, t \in {Undefined, Null, JStr(<<" ">>), JStr(<<"Ficou", " ", "bom">>)}}
JsonContentTypes == {<<"application/json">>, <<"application/json", ";", " ", "charset=utf-8">>}
TextContentTypes == {<<>>, <<"text/html">>}
TextBodies == {TextBody(t) : t \in Blanks \cup Padded(<<"Bad", " ", "Gateway">>)}
Statuses == {200, 400, 502}

FetchOutcomes ==
  {FetchRejects(FetchTypeError)}
  \cup {FetchResponse(status, contentType, body) :
          status \in Statuses, contentType \in JsonContentTypes,
          body \in {JsonBody(v) : v \in JsonValues} \cup {TextBody(<<>>), BrokenBody}}
  \cup {FetchResponse(status, contentType, body) :
          status \in Statuses, contentType \in TextContentTypes,
          body \in TextBodies \cup {BrokenBody}}

(***************************************************************************)
(* Several requests in flight at the dispatcher                            *)
(***************************************************************************)
\* the requests in flight at once
MaxTasks == 2
TaskIds == 1..MaxTasks

IdleTask ==
  [pc |-> "idle", req |-> NoRequest, raw |-> RawNone, call |-> NoCall,
   reply |-> NoReply, res |-> NoResponse]

InitTasks == tasks = [t \in TaskIds |-> IdleTask]

\* the requests, bodies and replies of the requests in flight
TaskRequests ==
  {[method |-> "OPTIONS", url |-> <<"/api/llm/edit">>],
   [method |-> "GET", url |-> <<"/health">>],
   [method |-> "GET", url |-> <<"/">>],
   [method |-> "POST", url |-> <<"/api/llm/suggestions">>],
   [method |-> "POST", url |-> <<"/api/llm/edit">>]}
TaskBodies ==
  {RawInvalid}
  \cup {RawJson(Object(JStr(<<"QUJD">>), JStr(<<"image/jpeg">>), Undefined, mo,
                       JStr(<<"franja">>), RefValue("undefined", Undefined, Undefined))) :
          mo \in {Undefined, JStr(<<"custom-model">>)}}
TaskSuggestionsReplies ==
  {SdkThrows,
   Response(Undefined, NoFeedback, <<>>),
   Response(JStr(<<"Corte", " ", "curto">>), NoFeedback, <<>>)}
TaskEditReplies ==
  {SdkThrows,
   Response(Undefined, NoFeedback, <<>>),
   Response(Undefined, NoFeedback, <<Candidate(Parts(<<ImagePart(<<"image/png">>, <<"QUJD">>)>>))>>)}

\* lines 66-111 up to the first suspension point, for the request in slot t
TaskArrives(t) ==
  /\ tasks[t].pc = "idle"
  /\ \E request \in TaskRequests :
       LET method == request.method
           url == request.url
           answered(response) == [tasks[t] EXCEPT !.req = request, !.res = response,
                                                  !.pc = "done"]
       IN tasks' = [tasks EXCEPT ![t] =
            IF method = "OPTIONS" THEN answered(handleOptions)
            ELSE IF IsHealth(method, url) THEN answered(sendJSON(200, HealthPayload))
            ELSE IF IsSuggestions(method, url) \/ IsEdit(method, url)
            THEN [tasks[t] EXCEPT !.req = request, !.pc = "reading"]
            ELSE answered(sendJSON(404, MessagePayload(<<"Rota não encontrada.">>)))]
  /\ UNCHANGED <<server, client>>

\* mutant: the body read is kept in a module variable that the requests share
TaskDispatch_SharedBody(t, rawBody) ==
  LET others == {u \in TaskIds \ {t} : tasks[u].raw # RawNone}
      used == IF others = {} THEN rawBody ELSE tasks[CHOOSE u \in others : TRUE].raw
      outcome == IF IsSuggestions(tasks[t].req.method, tasks[t].req.url)
                 THEN suggestionsRequest(used) ELSE editRequest(used)
  IN tasks' = [tasks EXCEPT ![t] =
       IF outcome.ok
       THEN [tasks[t] EXCEPT !.raw = rawBody, !.call = outcome.val, !.pc = "awaiting"]
       ELSE [tasks[t] EXCEPT !.raw = rawBody, !.res = Conclude(outcome), !.pc = "done"]]

\* the body of the request in slot t has been read: the outbound call, or the error
TaskDispatch(t, rawBody) ==
  LET outcome == IF IsSuggestions(tasks[t].req.method, tasks[t].req.url)
                 THEN suggestionsRequest(rawBody) ELSE editRequest(rawBody)
  IN tasks' = [tasks EXCEPT ![t] =
       IF outcome.ok
       THEN [tasks[t] EXCEPT !.raw = rawBody, !.call = outcome.val, !.pc = "awaiting"]
       ELSE [tasks[t] EXCEPT !.raw = rawBody, !.res = Conclude(outcome), !.pc = "done"]]

TaskBody(t) ==
  /\ tasks[t].pc = "reading"
  /\ \E rawBody \in TaskBodies : TaskDispatch(t, rawBody)
  /\ UNCHANGED <<server, client>>

\* the outbound call of the request in slot t settles
TaskReply(t) ==
  /\ tasks[t].pc = "awaiting"
  /\ LET suggesting == IsSuggestions(tasks[t].req.method, tasks[t].req.url)
     IN \E backend \in IF suggesting THEN TaskSuggestionsReplies ELSE TaskEditReplies :
          tasks' = [tasks EXCEPT ![t] =
            [tasks[t] EXCEPT !.reply = backend, !.pc = "done",
                             !.res = Conclude(IF suggesting THEN suggestionsOutcome(backend)
                                              ELSE editOutcome(backend))]]
  /\ UNCHANGED <<server, client>>

\* the response of the request in slot t has been sent; the slot is free
TaskEnds(t) ==
  /\ tasks[t].pc = "done"
  /\ tasks' = [tasks EXCEPT ![t] = IdleTask]
  /\ UNCHANGED <<server, client>>

(***************************************************************************)
(* Specifications                                                          *)
(***************************************************************************)
Init == InitServer /\ InitClient /\ InitTasks

\* the dispatcher under every request body, with a few backend replies
Next ==
  \/ Options
  \/ Health
  \/ AwaitBody
  \/ NotFound
  \/ SuggestionsBody(SuggestionsBodies)
  \/ EditBody(EditBodies)
  \/ SuggestionsReply(SuggestionsReplies)
  \/ EditReply(SomeEditReplies)
  \/ NextRequest

Spec == Init /\ [][Next]_vars

\* the adapter under every backend reply, with a few request bodies
NextAdapter ==
  \/ Options
  \/ Health
  \/ AwaitBody
  \/ NotFound
  \/ SuggestionsBody(AdapterBodies)
  \/ EditBody(AdapterBodies)
  \/ SuggestionsReply(SuggestionsReplies)
  \/ EditReply(EditReplies)
  \/ NextRequest

SpecAdapter == Init /\ [][NextAdapter]_vars

\* the dispatcher with several requests in flight, interleaved at their
\* suspension points
NextConcurrent ==
  \/ \E t \in TaskIds : TaskArrives(t)
  \/ \E t \in TaskIds : TaskBody(t)
  \/ \E t \in TaskIds : TaskReply(t)
  \/ \E t \in TaskIds : TaskEnds(t)

SpecConcurrent == Init /\ [][NextConcurrent]_vars

\* the page under everything fetch can settle with
NextClient ==
  \/ CameraReady
  \/ CameraFails
  \/ Render
  \/ TypePrompt
  \/ ChooseReference
  \/ RemoveReference
  \/ CloseSuggestions
  \/ TryAgain
  \/ ClickSuggest
  \/ ClickSubmit
  \/ SuggestSettles(FetchOutcomes)
  \/ GenerateSettles(FetchOutcomes)

SpecClient == Init /\ [][NextClient]_vars

\* the page when every gateway call settles
SpecClientFair ==
  /\ SpecClient
  /\ WF_vars(SuggestSettles(FetchOutcomes))
  /\ WF_vars(GenerateSettles(FetchOutcomes))
  /\ WF_vars(Render)

(***************************************************************************)
(* Vocabulary of the properties                                            *)
(***************************************************************************)
Settled == pc \in {"awaiting", "done"}
Answered == pc = "done"
OnSuggestions == IsSuggestions(req.method, req.url)
OnEdit == IsEdit(req.method, req.url)
ParsedBody == raw.kind = "json"
ObjectBody == ParsedBody /\ raw.json.t = "object"

\* a string with at least one character that is not whitespace
NonBlankString(v) == v.t = "string" /\ \E i \in 1..Len(v.s) : ~IsWhitespace(v.s[i])

\* the parsed body carries both base64Data and mimeType as non-blank strings
HasImageFields(v) ==
  v.t = "object" /\ NonBlankString(v.base64Data) /\ NonBlankString(v.mimeType)

\* a referenceImage value the contract allows
AcceptableReference(r) ==
  \/ r.t \in {"undefined", "null"}
  \/ r.t = "object" /\ NonBlankString(r.base64Data) /\ NonBlankString(r.mimeType)

\* every field check made before provider resolution passes
FieldsValid ==
  /\ ObjectBody
  /\ HasImageFields(raw.json)
  /\ OnEdit => AcceptableReference(raw.json.referenceImage)

\* the response is an error of the given status with a { message } body
ErrorResponse(status) ==
  /\ pc = "done"
  /\ res.status = status
  /\ res.body.kind = "message"
  /\ res.body.message # <<>>

(***************************************************************************)
(* Properties of the dispatcher (specification Spec)                       *)
(***************************************************************************)
\* C1: a POST to /api/llm/suggestions or /api/llm/edit whose parsed body does
\* not carry both base64Data and mimeType as non-blank strings is answered 400
\* with a { message } body and makes no outbound call, whatever JSON value the
\* body is (null, number, string, array and boolean included).
C1_MissingImageFieldsAnswer400 ==
  ((OnSuggestions \/ OnEdit) /\ Settled /\ ParsedBody /\ ~HasImageFields(raw.json))
    => (ErrorResponse(400) /\ calls = 0 /\ call = NoCall)

\* C2: on POST /api/llm/edit a referenceImage that is neither absent/null nor an
\* object with non-blank base64Data and mimeType is answered 400 without an
\* outbound call; an absent/null one is sent as no reference (the call carries
\* the user image and the instruction only) and a well-formed one is sent as
\* the second part of the call, with the fields as received.
C2_ReferenceImageValidated ==
  (OnEdit /\ Settled /\ ObjectBody)
    => LET r == raw.json.referenceImage
       IN /\ ~AcceptableReference(r) => (ErrorResponse(400) /\ calls = 0 /\ call = NoCall)
          /\ calls > 0 =>
               /\ AcceptableReference(r)
               /\ r.t \in {"undefined", "null"} => Len(call.parts) = 2
               /\ r.t = "object" =>
                    /\ Len(call.parts) = 3
                    /\ call.parts[2] = ImagePart(r.mimeType.s, r.base64Data.s)

\* C2 witness: a reference image without mimeType on an otherwise valid edit
\* request is refused with the message of that field.
C2_Witness ==
  /\ OnEdit /\ Answered /\ ObjectBody
  /\ HasImageFields(raw.json)
  /\ raw.json.referenceImage.t = "object"
  /\ NonBlankString(raw.json.referenceImage.base64Data)
  /\ raw.json.referenceImage.mimeType = Undefined
  /\ res.status = 400
  /\ res.body.message = <<"O campo \"referenceImage.mimeType\" é obrigatório.">>
  /\ calls = 0

\* C3: a POST to /api/llm/edit or /api/llm/suggestions whose body is empty or
\* is not JSON is answered 400 with a { message } body, and no outbound call is
\* made for it.
C3_UnparsableBodyAnswers400 ==
  ((OnSuggestions \/ OnEdit) /\ raw.kind \in {"empty", "invalid"})
    => (ErrorResponse(400) /\ calls = 0 /\ call = NoCall /\ reply = NoReply)

\* C3 witness: malformed JSON on /api/llm/edit.
C3_Witness ==
  /\ OnEdit /\ Answered
  /\ raw.kind = "invalid"
  /\ res.status = 400
  /\ res.body.message = <<"Não foi possível interpretar o corpo da requisição como JSON.">>
  /\ calls = 0

\* the body names a provider: a non-blank string in its provider field
NamesProvider(v) == v.t = "object" /\ NonBlankString(v.provider)
\* the default model of the route the request is on
RouteDefaultModel == IF OnEdit THEN DEFAULT_IMAGE_MODEL ELSE DEFAULT_SUGGESTION_MODEL

\* the messages of the field checks
FieldMessages ==
  {<<"O campo \"base64Data\" é obrigatório.">>,
   <<"O campo \"mimeType\" é obrigatório.">>,
   <<"O campo \"referenceImage\" deve ser um objeto com base64Data e mimeType.">>,
   <<"O campo \"referenceImage.base64Data\" é obrigatório.">>,
   <<"O campo \"referenceImage.mimeType\" é obrigatório.">>}

\* C4 as stated: every request that names a provider other than the configured
\* one fails with 400, its message names the requested key, and no outbound
\* call is made.
C4_UnknownProviderMessageNamesKey ==
  ((OnSuggestions \/ OnEdit) /\ Settled /\ ParsedBody /\ NamesProvider(raw.json)
     /\ Trim(raw.json.provider.s) # DEFAULT_PROVIDER)
    => /\ ErrorResponse(400)
       /\ Includes(res.body.message, Trim(raw.json.provider.s))
       /\ calls = 0

\* C4 amended: a request that names a provider other than the configured one
\* fails with 400 and makes no outbound call; its message names the requested
\* key (trimmed) when the field checks made before provider resolution have
\* passed, and is the message of the first failing field check otherwise.
C4_UnknownProviderRejected ==
  ((OnSuggestions \/ OnEdit) /\ Settled /\ ParsedBody /\ NamesProvider(raw.json)
     /\ Trim(raw.json.provider.s) # DEFAULT_PROVIDER)
    => /\ ErrorResponse(400)
       /\ calls = 0 /\ call = NoCall /\ reply = NoReply
       /\ FieldsValid =>
            res.body.message = <<"Provedor \"">> \o Trim(raw.json.provider.s)
                                 \o <<"\" não é suportado pelo servidor.">>
       /\ ~FieldsValid => res.body.message \in FieldMessages

\* C4 witness: provider "unknown-x" on an otherwise valid suggestions request.
C4_Witness ==
  /\ OnSuggestions /\ Answered /\ FieldsValid
  /\ raw.json.provider = JStr(<<"unknown-x">>)
  /\ res.status = 400
  /\ Includes(res.body.message, <<"unknown-x">>)
  /\ calls = 0

\* C5 as stated: a provider key the request specifies must match the active
\* provider exactly or the request fails with 400; an absent provider field
\* means the process default.
C5_ProviderMatchesExactly ==
  ((OnSuggestions \/ OnEdit) /\ Settled /\ FieldsValid)
    => /\ (NamesProvider(raw.json) /\ raw.json.provider.s # DEFAULT_PROVIDER)
            => ErrorResponse(400)
       /\ raw.json.provider = Undefined => calls = 1

\* C5 amended: a provider key the request specifies (a non-blank string) must
\* equal the active provider once surrounding whitespace is trimmed, or the
\* request fails with 400; when the provider field is absent, not a string or
\* blank, the process default ("gemini") is used and the request goes on to
\* the Gemini call.
C5_ProviderMatchesTrimmed ==
  ((OnSuggestions \/ OnEdit) /\ Settled /\ FieldsValid)
    => IF NamesProvider(raw.json) /\ Trim(raw.json.provider.s) # <<"gemini">>
       THEN ErrorResponse(400) /\ calls = 0
       ELSE calls = 1 /\ call.op = "generateContent"

\* C5 witness: provider " gemini " is accepted and the call is made.
C5_Witness ==
  /\ OnEdit /\ pc = "awaiting" /\ FieldsValid
  /\ NamesProvider(raw.json)
  /\ raw.json.provider.s # <<"gemini">>
  /\ Trim(raw.json.provider.s) = <<"gemini">>
  /\ calls = 1

\* C6 as stated: a blank or absent request model falls back to the default of
\* the operation, and a non-empty request model is passed through unchanged to
\* the backend call.
C6_ModelPassedUnchanged ==
  ((OnSuggestions \/ OnEdit) /\ calls = 1)
    => LET model == raw.json.model
       IN /\ (model = Undefined \/ (model.t = "string" /\ ~NonBlankString(model)))
               => call.model = RouteDefaultModel
          /\ NonBlankString(model) => call.model = model.s

\* C6 amended: a request model that is absent, not a string or blank falls
\* back to the default of the operation (suggestion default on
\* /api/llm/suggestions, image default on /api/llm/edit); a non-blank request
\* model is passed to the backend call with its surrounding whitespace trimmed
\* ("custom-model" unchanged, " custom-model " as "custom-model").
C6_ModelResolved ==
  ((OnSuggestions \/ OnEdit) /\ calls = 1)
    => LET model == raw.json.model
       IN /\ ~NonBlankString(model) =>
               /\ OnSuggestions => call.model = <<"gemini-2.5-flash">>
               /\ OnEdit => call.model = <<"gemini-2.5-flash-image-preview">>
          /\ NonBlankString(model) =>
               /\ call.model = Trim(model.s)
               /\ model.s = <<"custom-model">> => call.model = <<"custom-model">>

\* C6 witness: model " custom-model " reaches the edit call as "custom-model".
C6_Witness ==
  /\ OnEdit /\ pc = "awaiting" /\ calls = 1
  /\ NonBlankString(raw.json.model)
  /\ raw.json.model.s # <<"custom-model">>
  /\ call.model = <<"custom-model">>

(***************************************************************************)
(* Properties of the adapter (specification SpecAdapter)                   *)
(***************************************************************************)
Replied == pc = "done" /\ reply.kind = "response"

\* the backend reports the request blocked: a non-empty block reason
Blocked(response) ==
  response.promptFeedback.t = "object" /\ response.promptFeedback.blockReason.t = "string"
    /\ response.promptFeedback.blockReason.s # <<>>

\* the parts of the first candidate of the reply
ReplyItems(response) ==
  IF response.candidates = <<>> \/ response.candidates[1].parts.t = "undefined" THEN <<>>
  ELSE response.candidates[1].parts.items

InlineIndexes(response) ==
  {i \in 1..Len(ReplyItems(response)) : ReplyItems(response)[i].inlineData.t = "object"}
UsableTextIndexes(response) ==
  {i \in 1..Len(ReplyItems(response)) : NonBlankString(ReplyItems(response)[i].text)}

\* C7: for every valid image payload and every backend reply, suggest returns
\* a non-empty string or fails with 502; /api/llm/suggestions never answers 200
\* with suggestions = "".
C7_SuggestionsNeverEmpty ==
  (OnSuggestions /\ Replied)
    => \/ res.status = 200 /\ res.body.kind = "suggestions" /\ res.body.suggestions # <<>>
       \/ ErrorResponse(502)

\* C8: edit succeeds only with a result in which image or text is non-null;
\* a reply that is not blocked and holds neither an inline-binary part nor a
\* usable text part is answered 502, never 200 with { image: null, text: null }.
C8_EditResultNeverEmpty ==
  (OnEdit /\ Replied)
    => /\ res.status = 200 =>
            /\ res.body.kind = "result"
            /\ res.body.image.t = "string" \/ res.body.text.t = "string"
       /\ (~Blocked(reply) /\ InlineIndexes(reply) = {} /\ UsableTextIndexes(reply) = {})
            => ErrorResponse(502)

\* C8 witness: a reply whose only part is blank text is answered 502.
C8_Witness ==
  /\ OnEdit /\ Replied /\ ~Blocked(reply)
  /\ Len(ReplyItems(reply)) = 1
  /\ ReplyItems(reply)[1].text.t = "string"
  /\ ReplyItems(reply)[1].text.s # <<>>
  /\ UsableTextIndexes(reply) = {}
  /\ res.status = 502

\* C9: when the reply to edit holds an inline-binary part, the image returned
\* is exactly "data:" + M + ";base64," + D for the mime type M and payload D of
\* the first such part of the first candidate (image/png and "QUJD" give
\* "data:image/png;base64,QUJD"); a blocked reply returns no image at all.
C9_ImageIsDataUrlOfFirstInlinePart ==
  (OnEdit /\ Replied /\ InlineIndexes(reply) # {})
    => LET first == CHOOSE i \in InlineIndexes(reply) : \A j \in InlineIndexes(reply) : i <= j
           part == ReplyItems(reply)[first].inlineData
       IN IF Blocked(reply)
          THEN ErrorResponse(400)
          ELSE /\ res.status = 200
               /\ res.body.image = JStr(<<"data:">> \o part.mimeType \o <<";base64,">> \o part.data)
               /\ (part.mimeType = <<"image/png">> /\ part.data = <<"QUJD">>)
                    => res.body.image.s = <<"data:", "image/png", ";base64,", "QUJD">>

\* C9 witness: image/png "QUJD" ahead of another inline part.
C9_Witness ==
  /\ OnEdit /\ Replied
  /\ Cardinality(InlineIndexes(reply)) = 2
  /\ ReplyItems(reply)[1].inlineData = Inline(<<"image/png">>, <<"QUJD">>)
  /\ ReplyItems(reply)[2].inlineData # Inline(<<"image/png">>, <<"QUJD">>)
  /\ res.status = 200
  /\ res.body.image.s = <<"data:", "image/png", ";base64,", "QUJD">>

\* C10 as stated: a reply to edit that carries a block reason is answered 400
\* with a message that includes the block reason, whatever else the reply
\* carries, and no image/text result.
C10_BlockedMessageIncludesReason ==
  (OnEdit /\ Replied /\ Blocked(reply))
    => /\ ErrorResponse(400)
       /\ Includes(res.body.message, reply.promptFeedback.blockReason.s)

\* C10 amended: a reply to edit that carries a block reason is answered 400
\* and no image/text result; the message includes the block reason message
\* when the reply carries a non-empty one, and the block reason otherwise.
C10_BlockedMessageIncludesStatedReason ==
  (OnEdit /\ Replied /\ Blocked(reply))
    => LET feedback == reply.promptFeedback
       IN /\ ErrorResponse(400)
          /\ res.body.image = Undefined /\ res.body.text = Undefined
          /\ IF feedback.blockReasonMessage.t = "string" /\ feedback.blockReasonMessage.s # <<>>
             THEN Includes(res.body.message, feedback.blockReasonMessage.s)
             ELSE Includes(res.body.message, feedback.blockReason.s)

\* C10 witness: block reason "SAFETY" without a block reason message, in a
\* reply that also carries an image.
C10_Witness ==
  /\ OnEdit /\ Replied /\ Blocked(reply)
  /\ reply.promptFeedback.blockReason.s = <<"SAFETY">>
  /\ reply.promptFeedback.blockReasonMessage = Undefined
  /\ InlineIndexes(reply) # {}
  /\ res.status = 400
  /\ Includes(res.body.message, <<"SAFETY">>)

\* C11: when the backend reports a suggest request as blocked, suggest fails
\* with 400 and a message that carries the backend's stated reason (its block
\* reason message or its block reason), rather than failing with 502 or
\* succeeding.
C11_BlockedSuggestionsAnswer400 ==
  (OnSuggestions /\ Replied /\ Blocked(reply))
    => /\ ErrorResponse(400)
       /\ \/ Includes(res.body.message, reply.promptFeedback.blockReason.s)
          \/ /\ reply.promptFeedback.blockReasonMessage.t = "string"
             /\ Includes(res.body.message, reply.promptFeedback.blockReasonMessage.s)

\* C12: when the reply to edit is not blocked and holds a usable text part,
\* /api/llm/edit answers 200 with the text of such a part (trimmed or as sent);
\* image is null when the reply holds no inline-binary part and a data URL
\* when it holds one.
C12_TextOfReplyForwarded ==
  (OnEdit /\ Replied /\ ~Blocked(reply) /\ UsableTextIndexes(reply) # {})
    => /\ res.status = 200
       /\ res.body.kind = "result"
       /\ \E i \in UsableTextIndexes(reply) :
            \/ res.body.text = ReplyItems(reply)[i].text
            \/ res.body.text = JStr(Trim(ReplyItems(reply)[i].text.s))
       /\ IF InlineIndexes(reply) = {} THEN res.body.image = Null
          ELSE res.body.image.t = "string"

(***************************************************************************)
(* Properties of the conversion of errors into responses                   *)
(***************************************************************************)
\* the response was sent by the catch block
Failed == pc = "done" /\ caught # NoError

\* the statuses typed errors are created with
TypedStatuses == {400, 502}

\* the message of an answer to an error that is not typed
GenericMessage == <<"Erro interno do servidor. Consulte os logs para mais detalhes.">>

\* C13: every HttpError raised during validation, resolution or the adapter
\* call is answered with the error's statusCode as the status and { message }
\* with the error's message as the JSON body; every response whose status is
\* not 2xx has a body of that shape.
C13_TypedErrorsAnsweredAsRaised ==
  pc = "done"
    => /\ (caught.name = "HttpError")
            => /\ caught.statusCode \in TypedStatuses
               /\ res.status = caught.statusCode
               /\ res.contentType = <<"application/json">>
               /\ res.body = MessagePayload(caught.message)
       /\ (res.status \notin 200..299)
            => /\ res.body = MessagePayload(res.body.message)
               /\ res.body.message # <<>>

\* C13 witness: the 400 of a blocked edit carries the adapter's message.
C13_Witness ==
  /\ OnEdit /\ Failed /\ reply.kind = "response"
  /\ caught = HttpError(<<"Sua solicitação foi bloqueada: ", "SAFETY">>, 400)
  /\ res.status = 400
  /\ res.body.message = <<"Sua solicitação foi bloqueada: ", "SAFETY">>

\* C14: an error that is not an HttpError, the exceptions of the backend SDK
\* included, is answered 500 with one fixed message, the same whatever the
\* error's own message and status.
C14_UntypedErrorsAnsweredGenerically ==
  (Failed /\ caught.name # "HttpError")
    => /\ res.status = 500
       /\ res.body = MessagePayload(GenericMessage)

\* C14 witness: an exception of the SDK that carries a message and the
\* backend's status 429.
C14_Witness ==
  /\ Failed /\ reply.kind = "throw"
  /\ caught = ApiError(429, <<"got", " ", "status">>)
  /\ res.status = 500
  /\ res.body.message = GenericMessage

\* C15: a backend failure is answered by its HTTP status: 401 and 403 as an
\* authentication failure (401/403), 429 as a rate limit (429), any other 4xx
\* as a rejected request (4xx) whose message carries the backend's message,
\* 5xx and failures without a status as 502.
C15_BackendFailuresMapped ==
  (pc = "done" /\ reply.kind = "throw")
    => LET status == reply.error.statusCode
       IN CASE status \in {401, 403} -> res.status \in {401, 403}
            [] status = 429 -> res.status = 429
            [] status \in 400..499 ->
                 /\ res.status \in 400..499
                 /\ Includes(res.body.message, reply.error.message)
            [] OTHER -> res.status = 502

(***************************************************************************)
(* Properties of the routes (specification Spec)                           *)
(***************************************************************************)
\* the path of the request: its url up to the query string
RequestPath == IF req.url = <<>> THEN "" ELSE Head(req.url)

\* the method/path pairs the dispatcher serves
Routes ==
  {<<"GET", "/health">>, <<"POST", "/api/llm/suggestions">>, <<"POST", "/api/llm/edit">>}

Arrived == req # NoRequest

\* C16: every response sent (200, 4xx and 5xx, 404 for unknown routes, 204 for
\* OPTIONS on any path) carries Access-Control-Allow-Origin set to the
\* configured origin.
C16_EveryResponseAllowsOrigin ==
  (sent > 0) => (res.allowOrigin = ALLOWED_ORIGIN /\ res.allowOrigin # <<>>)

\* C16 witness: OPTIONS on a path that is no route.
C16_Witness ==
  /\ pc = "done" /\ sent = 1
  /\ req.method = "OPTIONS" /\ RequestPath = "/"
  /\ res.status = 204
  /\ res.allowOrigin = <<"*">>

C18_LegacyRoutesServed ==
  (Arrived /\ req.method = "POST"
     /\ RequestPath \in {"/api/gemini/suggestions", "/api/gemini/edit"})
    => ~(pc = "done" /\ res.status = 404)

(***************************************************************************)
(* Properties of the life of a request (specification Spec)                *)
(***************************************************************************)
\* the provider field of the body resolves to the Gemini adapter
ProviderResolves ==
  ~NamesProvider(raw.json) \/ Trim(raw.json.provider.s) = <<"gemini">>

\* the order of the handler's positions: received (idle, reading), dispatched
\* (awaiting), succeeded or failed (done), then the next request
LifecycleSteps ==
  {<<"idle", "reading">>, <<"idle", "done">>, <<"reading", "awaiting">>,
   <<"reading", "done">>, <<"awaiting", "done">>, <<"done", "idle">>}

\* C19: a request moves from received to dispatched to succeeded or failed in
\* that order, and may fail from any earlier position; the outbound call is
\* made only by a step that read a body whose parsing, field validation and
\* provider resolution succeeded; a response is sent exactly when the request
\* ends, once, and it is sent when the outbound call settles.
C19_LifecycleInOrder ==
  [][ /\ (pc' # pc) => (<<pc, pc'>> \in LifecycleSteps)
      /\ (calls' # calls /\ pc' # "idle")
           => /\ pc = "reading" /\ pc' = "awaiting"
              /\ calls = 0 /\ calls' = 1
              /\ FieldsValid' /\ ProviderResolves'
              /\ sent' = 0
      /\ (pc' = "awaiting") => (calls' = 1 /\ sent' = 0 /\ res' = NoResponse)
      /\ (pc' = "done") => (sent' = 1 /\ res' # NoResponse)
      /\ (pc' \in {"idle", "reading"}) => (sent' = 0 /\ calls' = 0)
      /\ (pc = "awaiting" /\ reply' # reply) => (pc' = "done" /\ sent' = 1)
    ]_vars

\* C19 witness: a request that was dispatched and then succeeded.
C19_Witness ==
  /\ pc = "done" /\ sent = 1 /\ calls = 1
  /\ FieldsValid /\ ProviderResolves
  /\ reply.kind = "response" /\ res.status = 200

\* C20: a suggest or edit request whose body passes parsing, field validation
\* and provider resolution makes exactly one outbound call, a call that failed
\* included; any other request makes none.
C20_OneCallPerOperation ==
  /\ calls \in {0, 1}
  /\ ((OnSuggestions \/ OnEdit) /\ Settled)
       => (calls = IF FieldsValid /\ ProviderResolves THEN 1 ELSE 0)
  /\ ~Settled => calls = 0
  /\ (reply # NoReply) => calls = 1

\* C20 witness: the call failed and was not made again.
C20_Witness ==
  /\ OnSuggestions /\ pc = "done"
  /\ reply.kind = "throw" /\ res.status = 500
  /\ calls = 1

(***************************************************************************)
(* Properties of the instruction of edit (specification SpecAdapter)       *)
(***************************************************************************)
\* the prompt the edit route hands to the adapter
RequestPrompt == IF raw.json.prompt.t = "string" THEN raw.json.prompt.s ELSE <<>>

\* the instruction of the outbound call: the text of its last part
Instruction == call.parts[Len(call.parts)].text.s

FallbackPhrase == <<"o estilo da imagem de referência">>

\* C23: the instruction edit sends contains the literal prompt text when no
\* reference image is supplied; with a reference image and an empty or blank
\* prompt it contains the fallback phrase in place of the prompt, never an
\* empty substitution; with a reference image and a non-blank prompt it
\* contains the prompt (without the whitespace around it).
C23_InstructionCarriesPrompt ==
  (OnEdit /\ Settled /\ calls = 1)
    => LET guide == SubSeq(Instruction, 2, Len(Instruction))
       IN IF raw.json.referenceImage.t \in {"undefined", "null"}
          THEN /\ Len(call.parts) = 2
               /\ guide = RequestPrompt
          ELSE /\ Len(call.parts) = 3
               /\ guide # <<".">>
               /\ IF Trim(RequestPrompt) = <<>>
                  THEN guide = FallbackPhrase \o <<".">>
                  ELSE guide = Trim(RequestPrompt) \o <<".">>

\* C23 witness: a reference image with the prompt " ".
C23_Witness ==
  /\ OnEdit /\ pc = "awaiting" /\ calls = 1
  /\ raw.json.referenceImage.t = "object"
  /\ raw.json.prompt = JStr(<<" ">>)
  /\ Includes(Instruction, FallbackPhrase)

(***************************************************************************)
(* Properties of the order of the checks (specification Spec)              *)
(***************************************************************************)
\* the first check, in the order of the handler, that the request fails
FirstFailure ==
  IF ~ParsedBody THEN "parse"
  ELSE IF ~(raw.json.t = "object" /\ NonBlankString(raw.json.base64Data)) THEN "base64Data"
  ELSE IF ~NonBlankString(raw.json.mimeType) THEN "mimeType"
  ELSE IF OnEdit /\ ~AcceptableReference(raw.json.referenceImage) THEN "referenceImage"
  ELSE IF ~ProviderResolves THEN "provider"
  ELSE "none"

\* the messages each check answers with
CheckMessages(check) ==
  CASE check = "parse" ->
         {<<"Corpo da requisição vazio.">>,
          <<"Não foi possível interpretar o corpo da requisição como JSON.">>}
    [] check = "base64Data" -> {<<"O campo \"base64Data\" é obrigatório.">>}
    [] check = "mimeType" -> {<<"O campo \"mimeType\" é obrigatório.">>}
    [] check = "referenceImage" ->
         {<<"O campo \"referenceImage\" deve ser um objeto com base64Data e mimeType.">>,
          <<"O campo \"referenceImage.base64Data\" é obrigatório.">>,
          <<"O campo \"referenceImage.mimeType\" é obrigatório.">>}
    [] check = "provider" -> {UnsupportedProviderMessage(Trim(raw.json.provider.s))}
    [] OTHER -> {}

C26_SuccessPassesClientCheck ==
  (pc = "done" /\ res.status = 200)
    => /\ OnSuggestions => getHairstyleSuggestions(Received(res)).ok
       /\ OnEdit => editImageWithHairstyle(Received(res)).ok

(***************************************************************************)
(* Properties of the gateway (specification SpecClient)                    *)
(***************************************************************************)
\* a gateway call has settled and nothing was started since
GatewaySettled == last.op # "none" /\ last.fetched.kind # "none"
\* fetch could not reach the dispatcher
Unreachable(fetched) == fetched.kind = "reject"
\* fetch got a response whose status is not 2xx
Refused(fetched) == fetched.kind = "response" /\ fetched.status \notin 200..299
\* fetch got a response whose status is 2xx
Accepted(fetched) == fetched.kind = "response" /\ fetched.status \in 200..299
\* the response is declared as JSON
DeclaredJson(fetched) ==
  \E i \in 1..Len(fetched.contentType) : fetched.contentType[i] = "application/json"
\* the JSON object the response carries, if it carries one
CarriesObject(fetched) ==
  DeclaredJson(fetched) /\ fetched.body.kind = "json" /\ fetched.body.json.t = "object"
\* the JSON error body carries a usable message field
CarriesMessage(fetched) ==
  CarriesObject(fetched) /\ NonBlankString(fetched.body.json.message)

FallbackMessage == <<"Falha ao comunicar com o servidor. Tente novamente mais tarde.">>
UnreachableMessage ==
  <<"Não foi possível conectar ao servidor. Verifique sua conexão com a internet e se o backend está em execução.">>

\* C21 as stated: in postJSON a failure to reach the dispatcher gives the
\* fixed cannot-reach message; a non-2xx response gives the message field of
\* the JSON error body (as sent or trimmed), and the fallback message whenever
\* that field is absent or the body is unparsable; the two cases never give
\* the same message.
C21_FailuresMappedAsStated ==
  GatewaySettled
    => LET fetched == last.fetched
           message == last.outcome.err.message
       IN /\ Unreachable(fetched)
               => (~last.outcome.ok /\ message = UnreachableMessage)
          /\ Refused(fetched)
               => /\ ~last.outcome.ok
                  /\ message # UnreachableMessage
                  /\ IF CarriesMessage(fetched)
                     THEN message \in {fetched.body.json.message.s,
                                       Trim(fetched.body.json.message.s)}
                     ELSE message = FallbackMessage

\* C21 amended: a failure to reach the dispatcher gives the fixed cannot-reach
\* message.  A non-2xx response gives: the trimmed message field when the body
\* is a JSON object with a non-blank string message; else the body itself when
\* it is a non-blank string (the text of a response not declared as JSON, or a
\* JSON string); else the fallback message (field absent, not a string or
\* blank; body null, empty or unparsable) -- except that a response not
\* declared as JSON whose body cannot be read rejects with the TypeError of
\* the read.  A response gives the cannot-reach message only when its body
\* carries that very message.
C21_FailuresMapped ==
  GatewaySettled
    => LET fetched == last.fetched
           body == fetched.body
           error == last.outcome.err
       IN /\ Unreachable(fetched)
               => (~last.outcome.ok /\ error = JsError(UnreachableMessage))
          /\ Refused(fetched)
               => /\ ~last.outcome.ok
                  /\ IF CarriesMessage(fetched)
                     THEN error = JsError(Trim(body.json.message.s))
                     ELSE IF DeclaredJson(fetched)
                     THEN IF body.kind = "json" /\ NonBlankString(body.json)
                          THEN error = JsError(body.json.s)
                          ELSE error = JsError(FallbackMessage)
                     ELSE IF body.kind = "broken" THEN error.name = "TypeError"
                     ELSE IF \E i \in 1..Len(body.text) : ~IsWhitespace(body.text[i])
                          THEN error = JsError(body.text)
                          ELSE error = JsError(FallbackMessage)
                  /\ (error.message = UnreachableMessage)
                       => (CarriesMessage(fetched)
                             /\ Trim(body.json.message.s) = UnreachableMessage)

\* C21 witness: a 502 that is not JSON gives its text, untrimmed.
C21_Witness ==
  /\ GatewaySettled /\ last.fetched.status = 502
  /\ ~DeclaredJson(last.fetched)
  /\ last.fetched.body = TextBody(<<" ", "Bad", " ", "Gateway", " ">>)
  /\ last.outcome.err = JsError(<<" ", "Bad", " ", "Gateway", " ">>)

\* C22: a 2xx response that violates the contract of the operation is an
\* error: getHairstyleSuggestions returns (the suggestions) exactly when the
\* body is a JSON object whose suggestions is a non-blank string,
\* editImageWithHairstyle returns exactly when it is one whose image or text
\* is a non-blank string, returning null for the other when that is not one;
\* both throw for a body that is empty, null, unparsable or no JSON object.
C22_ContractViolationsThrow ==
  (GatewaySettled /\ Accepted(last.fetched))
    => LET value == last.fetched.body.json
           result == last.outcome.val
       IN IF last.op = "suggest"
          THEN /\ last.outcome.ok
                    <=> (CarriesObject(last.fetched) /\ NonBlankString(value.suggestions))
               /\ last.outcome.ok => (result = value.suggestions /\ result.s # <<>>)
          ELSE /\ last.outcome.ok
                    <=> /\ CarriesObject(last.fetched)
                        /\ NonBlankString(value.image) \/ NonBlankString(value.text)
               /\ last.outcome.ok
                    => /\ result.image = IF NonBlankString(value.image) THEN value.image ELSE Null
                       /\ result.text = IF NonBlankString(value.text) THEN value.text ELSE Null
                       /\ result.image # Null \/ result.text # Null

\* C22 witness: 200 { suggestions: " " } makes getHairstyleSuggestions throw.
C22_Witness ==
  /\ GatewaySettled /\ last.op = "suggest" /\ last.fetched.status = 200
  /\ CarriesObject(last.fetched)
  /\ last.fetched.body.json.suggestions = JStr(<<" ">>)
  /\ last.outcome.err = JsError(<<"O servidor não retornou sugestões válidas.">>)

(***************************************************************************)
(* Properties of the page (specifications SpecClient and SpecClientFair)   *)
(***************************************************************************)
\* the step ends a run of a handler
Settling == last' # last /\ last'.op # "none"

\* C25 as stated: an error of the gateway that is not a transport failure is
\* shown with its message verbatim, and the connectivity message is shown
\* exactly when fetch could not reach the dispatcher.
C25_ErrorsShownAsStated ==
  [][ (Settling /\ ~last'.outcome.ok /\ last'.fetched.kind # "none")
        => /\ Unreachable(last'.fetched) <=> (ui'.error = JStr(UnreachableMessage))
           /\ ~Unreachable(last'.fetched) => (ui'.error = JStr(last'.outcome.err.message))
    ]_vars

\* C25 amended: the message of an error thrown by the gateway is shown without
\* the whitespace around it, and is never blank; the connectivity message is
\* shown whenever fetch could not reach the dispatcher or the gateway rejects
\* with a TypeError, which it does when the body of a response not declared as
\* JSON cannot be read; apart from these it is shown only when the error body
\* of the response carries that very message.
C25_ErrorsShown ==
  [][ (Settling /\ ~last'.outcome.ok)
        => LET fetched == last'.fetched
               error == last'.outcome.err
           IN /\ ui'.error.t = "string" /\ ui'.error.s # <<>>
              /\ error.name = "Error" => ui'.error.s = Trim(error.message)
              /\ (Unreachable(fetched) \/ error.name = "TypeError")
                   => ui'.error.s = UnreachableMessage
              /\ (ui'.error.s = UnreachableMessage)
                   => \/ Unreachable(fetched)
                      \/ /\ fetched.kind = "response" /\ ~DeclaredJson(fetched)
                         /\ fetched.body.kind = "broken"
                      \/ /\ Refused(fetched) /\ CarriesMessage(fetched)
                         /\ Trim(fetched.body.json.message.s) = UnreachableMessage
    ]_vars

\* C25 witness: the text of a 502 that is not JSON is shown trimmed.
C25_Witness ==
  /\ last.op = "suggest" /\ last.fetched.status = 502
  /\ last.outcome.err = JsError(<<" ", "Bad", " ", "Gateway", " ">>)
  /\ ui.error = JStr(<<"Bad", " ", "Gateway">>)

\* C27: at most one gateway call is in flight at any time, isLoading and
\* isSuggesting are never both true, and a busy flag is up exactly while the
\* call of its handler is in flight.
C27_OneRequestInFlight ==
  /\ pending.suggest + pending.edit <= 1
  /\ ~(ui.isLoading /\ ui.isSuggesting)
  /\ ui.isSuggesting <=> (pending.suggest = 1)
  /\ ui.isLoading <=> (pending.edit = 1)

\* C27 witness: an edit in flight after a suggest that has ended, while the
\* render still shows the page as it was before.
C27_Witness ==
  /\ pending.edit = 1 /\ pending.suggest = 0
  /\ ui.isLoading /\ ~ui.isSuggesting
  /\ Truthy(ui.suggestions)

\* C28: a busy flag that is up comes down: once the gateway call settles
\* (result, application error, transport error) isSuggesting respectively
\* isLoading is false again, and so it is after a failed frame capture.
C28_BusyFlagsCleared ==
  /\ ui.isSuggesting ~> (~ui.isSuggesting /\ pending.suggest = 0)
  /\ ui.isLoading ~> (~ui.isLoading /\ pending.edit = 0)

\* C28 witness: the flags are down after an edit that ended in a transport
\* failure.
C28_Witness ==
  /\ last.op = "edit" /\ Unreachable(last.fetched)
  /\ ~ui.isLoading /\ ~ui.isSuggesting
  /\ pending.edit = 0

\* C29: when an edit started from the page ends in failure (a failed frame
\* capture included), error is a non-empty message and resultImage and
\* resultText are null; when it ends in success, resultImage and resultText
\* hold the result, of which one at least is not null, and error is null.
C29_EditOutcomeShown ==
  [][ (Settling /\ last'.op = "edit")
        => IF last'.outcome.ok
           THEN /\ ui'.resultImage = last'.outcome.val.image
                /\ ui'.resultText = last'.outcome.val.text
                /\ Truthy(ui'.resultImage) \/ Truthy(ui'.resultText)
                /\ ui'.error = Null
           ELSE /\ ui'.error.t = "string" /\ Trim(ui'.error.s) # <<>>
                /\ ui'.resultImage = Null
                /\ ui'.resultText = Null
    ]_vars

\* C29 witness: an edit answered 502 after an earlier edit brought a text.
C29_Witness ==
  /\ last.op = "edit" /\ last.fetched.status = 502 /\ ~last.outcome.ok
  /\ Truthy(ui.error)
  /\ ui.resultImage = Null /\ ui.resultText = Null
  /\ Truthy(ui.suggestions)

(***************************************************************************)
(* Properties of requests in flight together (specification SpecConcurrent)*)
(***************************************************************************)
\* the response of the handler to one request served alone, from its method
\* and path, the body read from it and the reply to its outbound call
ResponseAlone(request, rawBody, backend) ==
  IF request.method = "OPTIONS" THEN handleOptions
  ELSE IF IsHealth(request.method, request.url) THEN sendJSON(200, HealthPayload)
  ELSE IF IsSuggestions(request.method, request.url)
  THEN IF suggestionsRequest(rawBody).ok THEN Conclude(suggestionsOutcome(backend))
       ELSE Conclude(suggestionsRequest(rawBody))
  ELSE IF IsEdit(request.method, request.url)
  THEN IF editRequest(rawBody).ok THEN Conclude(editOutcome(backend))
       ELSE Conclude(editRequest(rawBody))
  ELSE sendJSON(404, MessagePayload(<<"Rota não encontrada.">>))

\* C24: with several requests in flight, interleaved at the body read and at
\* the outbound call, the response of each is the one the handler gives to the
\* same method, path, body and backend reply served alone, its outbound call
\* is the one its own body asks for, and a step of one request leaves the
\* state of every other request as it was.
C24_RequestsIndependent ==
  [][ /\ \A t \in TaskIds :
           /\ tasks'[t].pc = "done"
                => tasks'[t].res = ResponseAlone(tasks'[t].req, tasks'[t].raw, tasks'[t].reply)
           /\ tasks'[t].pc = "awaiting"
                => tasks'[t].call = (IF IsSuggestions(tasks'[t].req.method, tasks'[t].req.url)
                                     THEN suggestionsRequest(tasks'[t].raw)
                                     ELSE editRequest(tasks'[t].raw)).val
      /\ \E t \in TaskIds : \A u \in TaskIds \ {t} : tasks'[u] = tasks[u]
    ]_vars

\* C24 witness: an edit has been answered 200 while a suggestions request
\* that arrived with another body still awaits its outbound call.
C24_Witness ==
  /\ tasks[1].pc = "done" /\ IsEdit(tasks[1].req.method, tasks[1].req.url)
  /\ tasks[1].res.status = 200
  /\ tasks[2].pc = "awaiting" /\ IsSuggestions(tasks[2].req.method, tasks[2].req.url)
  /\ tasks[1].raw # tasks[2].raw

====
